---- MODULE Spec2Model ----
(***************************************************************************)
(* Movement ledger of inventory-go: the products' stock counters, the      *)
(* stock-in / reject / sale headers and their line items, and the HTTP     *)
(* handlers that mutate them.                                               *)
(*                                                                         *)
(* Every handler runs in two steps.  The first step (H_...) is the part of *)
(* the handler that runs before the repository call: it reads the store    *)
(* with GetByID and validates the request; a failed validation answers at  *)
(* once.  The second step (R_...) is the repository method: one database   *)
(* transaction, applied atomically together with the triggers of           *)
(* db/schema.sql that its statements fire.  Between the two steps other    *)
(* requests may commit.                                                     *)
(***************************************************************************)
EXTENDS Integers, Sequences, FiniteSets, TLC

\* ------------------------------------------------------------------ bounds
NumWorkers      == 2   \* concurrent requests in the concurrent specs
MaxStockIns     == 2   \* rows of stock_ins
MaxStockInItems == 2   \* rows of stock_in_items
MaxRejects      == 2   \* rows of rejects
MaxRejectItems  == 2   \* rows of reject_items
MaxSales        == 2   \* rows of sales
MaxQty          == 2   \* largest quantity a request names
MaxPaid         == 4   \* the paid amount up to which payments are added
InitStock       == 1   \* stock of every product before the first request

Products   == {"p1", "p2"}
Quantities == 0..MaxQty
UnitCosts  == {2}
\* subtotal / total sent by the caller: 0 is "not provided"
CallerAmounts == {0, 3}
Workers    == 1..NumWorkers
\* the model follows stock inside this range
Deltas == ((0 - MaxQty)..MaxQty) \ {0}
StockRange == (0 - 2 * MaxQty)..(InitStock + 2 * MaxQty)

\* status vocabularies (models/supplier.go:50-52, models/category.go:121-125,
\* models/sales.go:31-33)
StockInStatuses == {"draft", "completed", "cancelled"}
RejectStatuses  == {"pending", "completed", "cancelled"}
SaleStatuses    == {"draft", "completed", "cancelled"}

VARIABLES
    stock,           \* products.stock, per product
    stock_ins,       \* table stock_ins: row id = index
    stock_in_items,  \* table stock_in_items
    rejects,         \* table rejects
    reject_items,    \* table reject_items
    sales,           \* table sales
    sale_items,      \* table sale_items
    suppliers,       \* table suppliers: the purchase counters of each row
    customers,       \* table customers: the order counters of each row
    req,             \* per worker: the request between its two steps
    resp             \* per worker: the last response sent

vars == <<stock, stock_ins, stock_in_items, rejects, reject_items,
          sales, sale_items, suppliers, customers, req, resp>>

\* ------------------------------------------------------------ helper values
Suppliers == {"s1"}
Customers == {"c1"}
\* a request without supplier_id or customer_id
NoParty == ""

NoItems == << >>

Idle == [op |-> "idle", party |-> NoParty, hdr |-> 0, item |-> 0, product |-> "", quantity |-> 0,
         unit_cost |-> 0, subtotal |-> 0, status |-> "", total |-> 0,
         items |-> NoItems]

NoResp == [op |-> "none", code |-> "", hdr |-> 0, item |-> 0]

\* respondWithJSON / respondWithError: the answer of worker w's request
Respond(w, op, code, hdr, item) ==
    resp' = [resp EXCEPT ![w] = [op |-> op, code |-> code, hdr |-> hdr,
                                 item |-> item]]

\* a product row that is soft-deleted, and an id that no product row has;
\* Products are the rows that are not deleted, and stock is their stock
DeletedProducts == {"p3"}
MissingProducts == {"p9"}

\* a request item as decoded from JSON
ItemInputs == [product : Products, quantity : Quantities,
               unit_cost : UnitCosts, subtotal : CallerAmounts]

ItemLists(n) == UNION {[1..k -> ItemInputs] : k \in 0..n}

\* "Calculate subtotal if not provided" (stockin_handler.go:182-185)
ResolveSubtotal(it) ==
    IF it.subtotal = 0 THEN it.unit_cost * it.quantity ELSE it.subtotal

\* rows of an item table that belong to header h and are not soft-deleted
LiveItems(items, h) ==
    {i \in DOMAIN items : items[i].parent = h /\ ~items[i].deleted}

RECURSIVE SumField(_, _, _)
SumField(items, S, f) ==
    IF S = {} THEN 0
    ELSE LET i == CHOOSE x \in S : TRUE
         IN  items[i][f] + SumField(items, S \ {i}, f)

\* SELECT COALESCE(SUM(subtotal), 0) ... WHERE parent = h AND deleted_at IS NULL
SumSubtotal(items, h) == SumField(items, LiveItems(items, h), "subtotal")

\* number of requests of kind op that passed validation and have not committed
Pending(op) == Cardinality({w \in Workers : req[w].op = op})

RECURSIVE PendingItems(_, _)
PendingItems(op, W) ==
    IF W = {} THEN 0
    ELSE LET w == CHOOSE x \in W : TRUE
         IN  (IF req[w].op = op THEN Len(req[w].items) ELSE 0)
             + PendingItems(op, W \ {w})

\* the loop body without its last check
ItemError_NoStockCheck(it, checkStock) ==
    IF it.quantity <= 0 THEN "InvalidQuantity"
    ELSE IF it.product \notin Products THEN "ProductNotFound"
    ELSE "ok"

\* validation of one request item, in the order of the handler's loop body
ItemError(it, checkStock) ==
    IF it.quantity <= 0 THEN "InvalidQuantity"
    ELSE IF it.product \notin Products THEN "ProductNotFound"
    ELSE IF checkStock /\ stock[it.product] < it.quantity THEN "InsufficientStock"
    ELSE "ok"

\* the loop returns at the first item that fails
ValidateItems(items, checkStock) ==
    LET bad == {i \in DOMAIN items : ItemError(items[i], checkStock) # "ok"}
    IN  IF bad = {} THEN "ok"
        ELSE ItemError(items[CHOOSE i \in bad : \A j \in bad : i <= j], checkStock)

\* a create that inserts the items and leaves products alone
ApplyItems_NoStock(st, items, sign) == st

\* stock after UPDATE products SET stock = stock + quantity for each item of a
\* list, in order; sign is +1 or -1
RECURSIVE ApplyItems(_, _, _)
ApplyItems(st, items, sign) ==
    IF items = << >> THEN st
    ELSE LET it == Head(items)
         IN  ApplyItems([st EXCEPT ![it.product] = @ + sign * it.quantity],
                        Tail(items), sign)

InRange(st) == \A p \in Products : st[p] \in StockRange

\* ---------------------------------------------------------------- initial
Init ==
    /\ stock = [p \in Products |-> InitStock]
    /\ stock_ins = << >>
    /\ stock_in_items = << >>
    /\ rejects = << >>
    /\ reject_items = << >>
    /\ sales = << >>
    /\ sale_items = << >>
    /\ suppliers = [x \in Suppliers |-> [total_purchases |-> 0, total_spent |-> 0]]
    /\ customers = [x \in Customers |-> [total_orders |-> 0, total_spent |-> 0]]
    /\ req = [w \in Workers |-> Idle]
    /\ resp = [w \in Workers |-> NoResp]

\* the same store with product p1 at any stock level a request can name
InitAnyStock ==
    /\ stock \in {st \in [Products -> 0..MaxQty] : st["p2"] = InitStock}
    /\ stock_ins = << >>
    /\ stock_in_items = << >>
    /\ rejects = << >>
    /\ reject_items = << >>
    /\ sales = << >>
    /\ sale_items = << >>
    /\ suppliers = [x \in Suppliers |-> [total_purchases |-> 0, total_spent |-> 0]]
    /\ customers = [x \in Customers |-> [total_orders |-> 0, total_spent |-> 0]]
    /\ req = [w \in Workers |-> Idle]
    /\ resp = [w \in Workers |-> NoResp]

StockInUnchanged == UNCHANGED <<stock_ins, stock_in_items>>
RejectUnchanged  == UNCHANGED <<rejects, reject_items>>
SaleUnchanged    == UNCHANGED <<sales, sale_items>>
PartiesUnchanged == UNCHANGED <<suppliers, customers>>
StoreUnchanged   == /\ UNCHANGED stock
                    /\ StockInUnchanged /\ RejectUnchanged /\ SaleUnchanged
                    /\ PartiesUnchanged

\* GetByID of a header table: the row exists and deleted_at IS NULL
Visible(tbl, id) == id \in DOMAIN tbl /\ ~tbl[id].deleted

\* =================================================================== stock-in
\* StockInHandler.CreateStockIn, up to the repository call
H_CreateStockInFor(w, supplier, status, total, items) ==
    /\ req[w].op = "idle"
    /\ Len(stock_ins) + Pending("CreateStockIn") < MaxStockIns
    /\ Len(stock_in_items) + PendingItems("CreateStockIn", Workers)
         + Pending("AddStockInItem") + Len(items) <= MaxStockInItems
    /\ LET err == IF supplier # NoParty /\ supplier \notin Suppliers
                  THEN "SupplierNotFound"
                  ELSE ValidateItems(items, FALSE)
       IN  IF err # "ok"
           THEN /\ Respond(w, "CreateStockIn", err, 0, 0)
                /\ UNCHANGED req
           ELSE /\ req' = [req EXCEPT ![w] =
                     [Idle EXCEPT !.op = "CreateStockIn", !.status = status,
                        !.party = supplier,
                        !.total = total,
                        !.items = [i \in DOMAIN items |->
                            [items[i] EXCEPT !.subtotal = ResolveSubtotal(items[i])]]]]
                /\ UNCHANGED resp
    /\ StoreUnchanged

\* the same for a request without supplier_id
H_CreateStockIn(w, status, total, items) ==
    H_CreateStockInFor(w, NoParty, status, total, items)

\* StockInRepositoryImpl.Create without its UPDATE suppliers
R_CreateStockIn_NoRollup(w) ==
    /\ req[w].op = "CreateStockIn"
    /\ LET id == Len(stock_ins) + 1
           r  == req[w]
       IN  /\ stock_ins' = Append(stock_ins,
                  [status |-> r.status, total |-> r.total, deleted |-> FALSE])
           /\ stock_in_items' = stock_in_items \o
                  [i \in DOMAIN r.items |->
                      [parent |-> id, product |-> r.items[i].product,
                       quantity |-> r.items[i].quantity,
                       unit_cost |-> r.items[i].unit_cost,
                       subtotal |-> r.items[i].subtotal, deleted |-> FALSE]]
           /\ stock' = ApplyItems(stock, r.items, 1)
           /\ InRange(stock')
           /\ Respond(w, "CreateStockIn", "ok", id, 0)
    /\ req' = [req EXCEPT ![w] = Idle]
    /\ PartiesUnchanged
    /\ RejectUnchanged /\ SaleUnchanged

\* StockInRepositoryImpl.Create
R_CreateStockIn(w) ==
    /\ req[w].op = "CreateStockIn"
    /\ LET id == Len(stock_ins) + 1
           r  == req[w]
       IN  /\ stock_ins' = Append(stock_ins,
                  [status |-> r.status, total |-> r.total, deleted |-> FALSE])
           /\ stock_in_items' = stock_in_items \o
                  [i \in DOMAIN r.items |->
                      [parent |-> id, product |-> r.items[i].product,
                       quantity |-> r.items[i].quantity,
                       unit_cost |-> r.items[i].unit_cost,
                       subtotal |-> r.items[i].subtotal, deleted |-> FALSE]]
           /\ stock' = ApplyItems(stock, r.items, 1)
           /\ InRange(stock')
           /\ suppliers' =
                  IF r.party \in Suppliers
                  THEN [suppliers EXCEPT
                          ![r.party].total_purchases = @ + 1,
                          ![r.party].total_spent = @ + r.total]
                  ELSE suppliers
           /\ Respond(w, "CreateStockIn", "ok", id, 0)
    /\ req' = [req EXCEPT ![w] = Idle]
    /\ UNCHANGED customers
    /\ RejectUnchanged /\ SaleUnchanged


\* update_product_quantity_after_stock_in (AFTER UPDATE ON stock_ins): when the
\* status becomes 'completed' its UPDATE names products.quantity, a column the
\* products table does not have, so the statement that fired it fails
StockInTriggerRaises(oldStatus, newStatus) ==
    newStatus = "completed" /\ oldStatus # "completed"

\* StockInHandler.UpdateStockIn, up to the repository call
H_UpdateStockIn(w, id, status, total) ==
    /\ req[w].op = "idle"
    /\ IF ~Visible(stock_ins, id)
       THEN /\ Respond(w, "UpdateStockIn", "NotFound", id, 0)
            /\ UNCHANGED req
       ELSE /\ req' = [req EXCEPT ![w] =
                 [Idle EXCEPT !.op = "UpdateStockIn", !.hdr = id,
                              !.status = status, !.total = total]]
            /\ UNCHANGED resp
    /\ StoreUnchanged

\* StockInRepositoryImpl.Update
R_UpdateStockIn(w) ==
    /\ req[w].op = "UpdateStockIn"
    /\ LET r == req[w]
       IN  IF StockInTriggerRaises(stock_ins[r.hdr].status, r.status)
           THEN /\ Respond(w, "UpdateStockIn", "ServerError", r.hdr, 0)
                /\ UNCHANGED stock_ins
           ELSE /\ stock_ins' = [stock_ins EXCEPT ![r.hdr].status = r.status,
                                                  ![r.hdr].total = r.total]
                /\ Respond(w, "UpdateStockIn", "ok", r.hdr, 0)
    /\ req' = [req EXCEPT ![w] = Idle]
    /\ UNCHANGED <<stock, stock_in_items>>
    /\ RejectUnchanged /\ SaleUnchanged /\ PartiesUnchanged

\* StockInHandler.DeleteStockIn, up to the repository call
H_DeleteStockIn(w, id) ==
    /\ req[w].op = "idle"
    /\ IF ~Visible(stock_ins, id)
       THEN /\ Respond(w, "DeleteStockIn", "NotFound", id, 0)
            /\ UNCHANGED req
       ELSE /\ req' = [req EXCEPT ![w] =
                 [Idle EXCEPT !.op = "DeleteStockIn", !.hdr = id]]
            /\ UNCHANGED resp
    /\ StoreUnchanged

\* rows of stock_in_items with stock_in_id = id, soft-deleted or not
ItemsOf(items, id) == {i \in DOMAIN items : items[i].parent = id}

\* stock after "UPDATE products SET stock = stock - quantity" for every row of S
RECURSIVE RevertRows(_, _, _)
RevertRows(st, items, S) ==
    IF S = {} THEN st
    ELSE LET i == CHOOSE x \in S : TRUE
         IN  RevertRows([st EXCEPT ![items[i].product] = @ - items[i].quantity],
                        items, S \ {i})

\* StockInRepositoryImpl.Delete
R_DeleteStockIn(w) ==
    /\ req[w].op = "DeleteStockIn"
    /\ LET id == req[w].hdr
       IN  /\ stock' = RevertRows(stock, stock_in_items, ItemsOf(stock_in_items, id))
           /\ InRange(stock')
           /\ stock_in_items' = [i \in DOMAIN stock_in_items |->
                  IF stock_in_items[i].parent = id
                  THEN [stock_in_items[i] EXCEPT !.deleted = TRUE]
                  ELSE stock_in_items[i]]
           /\ stock_ins' = [stock_ins EXCEPT ![id].deleted = TRUE]
           /\ Respond(w, "DeleteStockIn", "ok", id, 0)
    /\ req' = [req EXCEPT ![w] = Idle]
    /\ RejectUnchanged /\ SaleUnchanged /\ PartiesUnchanged

\* StockInHandler.AddStockInItem, up to the repository call
H_AddStockInItem(w, id, it) ==
    /\ req[w].op = "idle"
    /\ Len(stock_in_items) + PendingItems("CreateStockIn", Workers)
         + Pending("AddStockInItem") < MaxStockInItems
    /\ LET err == IF ~Visible(stock_ins, id) THEN "NotFound"
                  ELSE ItemError(it, FALSE)
       IN  IF err # "ok"
           THEN /\ Respond(w, "AddStockInItem", err, id, 0)
                /\ UNCHANGED req
           ELSE /\ req' = [req EXCEPT ![w] =
                     [Idle EXCEPT !.op = "AddStockInItem", !.hdr = id,
                        !.product = it.product, !.quantity = it.quantity,
                        !.unit_cost = it.unit_cost,
                        !.subtotal = ResolveSubtotal(it)]]
                /\ UNCHANGED resp
    /\ StoreUnchanged

\* StockInRepositoryImpl.AddStockInItem
R_AddStockInItem(w) ==
    /\ req[w].op = "AddStockInItem"
    /\ LET r     == req[w]
           id    == Len(stock_in_items) + 1
           items == Append(stock_in_items,
                       [parent |-> r.hdr, product |-> r.product,
                        quantity |-> r.quantity, unit_cost |-> r.unit_cost,
                        subtotal |-> r.subtotal, deleted |-> FALSE])
       IN  /\ stock_in_items' = items
           /\ stock' = [stock EXCEPT ![r.product] = @ + r.quantity]
           /\ InRange(stock')
           /\ stock_ins' = [stock_ins EXCEPT ![r.hdr].total = SumSubtotal(items, r.hdr)]
           /\ Respond(w, "AddStockInItem", "ok", r.hdr, id)
    /\ req' = [req EXCEPT ![w] = Idle]
    /\ RejectUnchanged /\ SaleUnchanged /\ PartiesUnchanged

\* an update that adds the whole new quantity to the product's stock
UpdateStockInItem_FullQuantity(w, hdr, item, it) ==
    /\ req[w].op = "idle"
    /\ UNCHANGED req
    /\ RejectUnchanged /\ SaleUnchanged /\ PartiesUnchanged
    /\ IF it.quantity <= 0 \/ item \notin DOMAIN stock_in_items
       THEN /\ Respond(w, "UpdateStockInItem", "ServerError", hdr, item)
            /\ UNCHANGED <<stock, stock_ins, stock_in_items>>
       ELSE LET items == [stock_in_items EXCEPT
                            ![item].product = it.product,
                            ![item].quantity = it.quantity,
                            ![item].unit_cost = it.unit_cost,
                            ![item].subtotal = ResolveSubtotal(it)]
            IN  /\ stock_in_items' = items
                /\ stock' = [stock EXCEPT ![it.product] = @ + it.quantity]
                /\ InRange(stock')
                /\ stock_ins' =
                     IF hdr \in DOMAIN stock_ins
                     THEN [stock_ins EXCEPT ![hdr].total = SumSubtotal(items, hdr)]
                     ELSE stock_ins
                /\ Respond(w, "UpdateStockInItem", "ok", hdr, item)

\* StockInHandler.UpdateStockInItem with StockInRepositoryImpl.UpdateStockInItem:
\* the handler reads nothing from the store before the repository call.
\* hdr is the {stockInId} of the URL, item the {itemId}.
UpdateStockInItem(w, hdr, item, it) ==
    /\ req[w].op = "idle"
    /\ UNCHANGED req
    /\ RejectUnchanged /\ SaleUnchanged /\ PartiesUnchanged
    /\ IF it.quantity <= 0
       THEN /\ Respond(w, "UpdateStockInItem", "InvalidQuantity", hdr, item)
            /\ UNCHANGED <<stock, stock_ins, stock_in_items>>
       ELSE IF item \notin DOMAIN stock_in_items
       THEN \* SELECT quantity ... WHERE id = $1 finds no row
            /\ Respond(w, "UpdateStockInItem", "ServerError", hdr, item)
            /\ UNCHANGED <<stock, stock_ins, stock_in_items>>
       ELSE IF it.product \notin Products \cup DeletedProducts
       THEN \* product_id REFERENCES products(id): the UPDATE of the item fails
            /\ Respond(w, "UpdateStockInItem", "ServerError", hdr, item)
            /\ UNCHANGED <<stock, stock_ins, stock_in_items>>
       ELSE LET quantityDiff == it.quantity - stock_in_items[item].quantity
                items == [stock_in_items EXCEPT
                            ![item].product = it.product,
                            ![item].quantity = it.quantity,
                            ![item].unit_cost = it.unit_cost,
                            ![item].subtotal = ResolveSubtotal(it)]
            IN  IF hdr \in DOMAIN stock_ins /\ LiveItems(items, hdr) = {}
                THEN \* SUM over no rows is NULL; stock_ins.total is NOT NULL
                     /\ Respond(w, "UpdateStockInItem", "ServerError", hdr, item)
                     /\ UNCHANGED <<stock, stock_ins, stock_in_items>>
                ELSE /\ stock_in_items' = items
                     /\ stock' = IF it.product \in Products
                                 THEN [stock EXCEPT ![it.product] = @ + quantityDiff]
                                 ELSE stock
                     /\ InRange(stock')
                     /\ stock_ins' =
                          IF hdr \in DOMAIN stock_ins
                          THEN [stock_ins EXCEPT ![hdr].total = SumSubtotal(items, hdr)]
                          ELSE stock_ins
                     /\ Respond(w, "UpdateStockInItem", "ok", hdr, item)

\* StockInHandler.DeleteStockInItem with StockInRepositoryImpl.DeleteStockInItem:
\* the handler passes {itemId} straight to the repository
DeleteStockInItem(w, item) ==
    /\ req[w].op = "idle"
    /\ UNCHANGED req
    /\ RejectUnchanged /\ SaleUnchanged /\ PartiesUnchanged
    /\ IF item \notin DOMAIN stock_in_items
       THEN /\ Respond(w, "DeleteStockInItem", "ServerError", 0, item)
            /\ UNCHANGED <<stock, stock_ins, stock_in_items>>
       ELSE LET row   == stock_in_items[item]
                items == [stock_in_items EXCEPT ![item].deleted = TRUE]
            IN  /\ stock_in_items' = items
                /\ stock' = [stock EXCEPT ![row.product] = @ - row.quantity]
                /\ InRange(stock')
                /\ stock_ins' = [stock_ins EXCEPT
                                   ![row.parent].total = SumSubtotal(items, row.parent)]
                /\ Respond(w, "DeleteStockInItem", "ok", row.parent, item)

\* ===================================================================== reject
\* RejectHandler.CreateReject, up to the repository call: the stock check is
\* made only "if status is completed"
H_CreateReject(w, status, total, items) ==
    /\ req[w].op = "idle"
    /\ Len(rejects) + Pending("CreateReject") < MaxRejects
    /\ Len(reject_items) + PendingItems("CreateReject", Workers)
         + Pending("AddRejectItem") + Len(items) <= MaxRejectItems
    /\ LET err == ValidateItems(items, status = "completed")
       IN  IF err # "ok"
           THEN /\ Respond(w, "CreateReject", err, 0, 0)
                /\ UNCHANGED req
           ELSE /\ req' = [req EXCEPT ![w] =
                     [Idle EXCEPT !.op = "CreateReject", !.status = status,
                        !.total = total,
                        !.items = [i \in DOMAIN items |->
                            [items[i] EXCEPT !.subtotal = ResolveSubtotal(items[i])]]]]
                /\ UNCHANGED resp
    /\ StoreUnchanged

RECURSIVE SumSeq(_, _)
SumSeq(items, f) ==
    IF items = << >> THEN 0 ELSE Head(items)[f] + SumSeq(Tail(items), f)

\* RejectRepositoryImpl.Create: the header and the items are inserted and the
\* total is summed "if not provided"; no statement touches products, and the
\* UPDATE of the total leaves the status as inserted, so the trigger is idle
R_CreateReject(w) ==
    /\ req[w].op = "CreateReject"
    /\ LET id == Len(rejects) + 1
           r  == req[w]
           total == IF r.total = 0 /\ Len(r.items) > 0
                    THEN SumSeq(r.items, "subtotal") ELSE r.total
       IN  /\ rejects' = Append(rejects,
                  [status |-> r.status, total |-> total, deleted |-> FALSE])
           /\ reject_items' = reject_items \o
                  [i \in DOMAIN r.items |->
                      [parent |-> id, product |-> r.items[i].product,
                       quantity |-> r.items[i].quantity,
                       unit_cost |-> r.items[i].unit_cost,
                       subtotal |-> r.items[i].subtotal, deleted |-> FALSE]]
           /\ Respond(w, "CreateReject", "ok", id, 0)
    /\ req' = [req EXCEPT ![w] = Idle]
    /\ UNCHANGED stock
    /\ StockInUnchanged /\ SaleUnchanged /\ PartiesUnchanged

\* the check RejectHandler.UpdateReject makes for a transition to completed:
\* each item of the reject on its own against its product's stock
CompletionError(id) ==
    LET bad == {i \in LiveItems(reject_items, id) :
                    stock[reject_items[i].product] < reject_items[i].quantity}
    IN  IF bad = {} THEN "ok" ELSE "InsufficientStock"

\* RejectHandler.UpdateReject, up to the repository call
H_UpdateReject(w, id, status, total) ==
    /\ req[w].op = "idle"
    /\ LET err == IF ~Visible(rejects, id) THEN "NotFound"
                  ELSE IF rejects[id].status # "completed" /\ status = "completed"
                       THEN CompletionError(id)
                  ELSE "ok"
       IN  IF err # "ok"
           THEN /\ Respond(w, "UpdateReject", err, id, 0)
                /\ UNCHANGED req
           ELSE /\ req' = [req EXCEPT ![w] =
                     [Idle EXCEPT !.op = "UpdateReject", !.hdr = id,
                                  !.status = status, !.total = total]]
                /\ UNCHANGED resp
    /\ StoreUnchanged

\* update_product_quantity_after_reject (AFTER UPDATE ON rejects): when the
\* status becomes 'completed', every product named by a live item of the reject
\* loses the summed quantity of all live items of the reject
RejectTrigger(st, id, oldStatus, newStatus) ==
    IF newStatus = "completed" /\ oldStatus # "completed"
    THEN LET live == LiveItems(reject_items, id)
             qty  == SumField(reject_items, live, "quantity")
         IN  [p \in Products |->
                IF \E i \in live : reject_items[i].product = p
                THEN st[p] - qty ELSE st[p]]
    ELSE st

\* RejectRepositoryImpl.Update: UPDATE rejects ... WHERE id = $7 AND deleted_at
\* IS NULL, and the trigger it fires
R_UpdateReject(w) ==
    /\ req[w].op = "UpdateReject"
    /\ LET r == req[w]
       IN  IF rejects[r.hdr].deleted
           THEN UNCHANGED <<rejects, stock>>
           ELSE /\ rejects' = [rejects EXCEPT ![r.hdr].status = r.status,
                                              ![r.hdr].total = r.total]
                /\ stock' = RejectTrigger(stock, r.hdr, rejects[r.hdr].status, r.status)
                /\ InRange(stock')
    /\ Respond(w, "UpdateReject", "ok", req[w].hdr, 0)
    /\ req' = [req EXCEPT ![w] = Idle]
    /\ UNCHANGED reject_items
    /\ StockInUnchanged /\ SaleUnchanged /\ PartiesUnchanged

\* RejectHandler.DeleteReject without its test of the status
H_DeleteReject_NoLock(w, id) ==
    /\ req[w].op = "idle"
    /\ IF ~Visible(rejects, id)
       THEN /\ Respond(w, "DeleteReject", "NotFound", id, 0)
            /\ UNCHANGED req
       ELSE /\ req' = [req EXCEPT ![w] =
                 [Idle EXCEPT !.op = "DeleteReject", !.hdr = id]]
            /\ UNCHANGED resp
    /\ StoreUnchanged

\* RejectHandler.DeleteReject, up to the repository call
H_DeleteReject(w, id) ==
    /\ req[w].op = "idle"
    /\ LET err == IF ~Visible(rejects, id) THEN "NotFound"
                  ELSE IF rejects[id].status = "completed" THEN "Locked"
                  ELSE "ok"
       IN  IF err # "ok"
           THEN /\ Respond(w, "DeleteReject", err, id, 0)
                /\ UNCHANGED req
           ELSE /\ req' = [req EXCEPT ![w] =
                     [Idle EXCEPT !.op = "DeleteReject", !.hdr = id]]
                /\ UNCHANGED resp
    /\ StoreUnchanged

\* RejectRepositoryImpl.Delete
R_DeleteReject(w) ==
    /\ req[w].op = "DeleteReject"
    /\ LET id == req[w].hdr
       IN  /\ reject_items' = [i \in DOMAIN reject_items |->
                  IF reject_items[i].parent = id
                  THEN [reject_items[i] EXCEPT !.deleted = TRUE]
                  ELSE reject_items[i]]
           /\ rejects' = [rejects EXCEPT ![id].deleted = TRUE]
           /\ Respond(w, "DeleteReject", "ok", id, 0)
    /\ req' = [req EXCEPT ![w] = Idle]
    /\ UNCHANGED stock
    /\ StockInUnchanged /\ SaleUnchanged /\ PartiesUnchanged

\* "Don't allow modification of completed or cancelled rejects": the check the
\* three item handlers make on the reject named in the URL
RejectGate(id) ==
    IF ~Visible(rejects, id) THEN "NotFound"
    ELSE IF rejects[id].status \in {"completed", "cancelled"} THEN "Locked"
    ELSE "ok"

\* RejectHandler.AddRejectItem, up to the repository call
H_AddRejectItem(w, id, it) ==
    /\ req[w].op = "idle"
    /\ Len(reject_items) + PendingItems("CreateReject", Workers)
         + Pending("AddRejectItem") < MaxRejectItems
    /\ LET err == IF RejectGate(id) # "ok" THEN RejectGate(id)
                  ELSE ItemError(it, FALSE)
       IN  IF err # "ok"
           THEN /\ Respond(w, "AddRejectItem", err, id, 0)
                /\ UNCHANGED req
           ELSE /\ req' = [req EXCEPT ![w] =
                     [Idle EXCEPT !.op = "AddRejectItem", !.hdr = id,
                        !.product = it.product, !.quantity = it.quantity,
                        !.unit_cost = it.unit_cost,
                        !.subtotal = ResolveSubtotal(it)]]
                /\ UNCHANGED resp
    /\ StoreUnchanged

\* RejectRepositoryImpl.AddRejectItem
R_AddRejectItem(w) ==
    /\ req[w].op = "AddRejectItem"
    /\ LET r     == req[w]
           id    == Len(reject_items) + 1
           items == Append(reject_items,
                       [parent |-> r.hdr, product |-> r.product,
                        quantity |-> r.quantity, unit_cost |-> r.unit_cost,
                        subtotal |-> r.subtotal, deleted |-> FALSE])
       IN  /\ reject_items' = items
           /\ rejects' = [rejects EXCEPT ![r.hdr].total = SumSubtotal(items, r.hdr)]
           /\ Respond(w, "AddRejectItem", "ok", r.hdr, id)
    /\ req' = [req EXCEPT ![w] = Idle]
    /\ UNCHANGED stock
    /\ StockInUnchanged /\ SaleUnchanged /\ PartiesUnchanged

\* RejectHandler.UpdateRejectItem, up to the repository call; hdr is the
\* {rejectId} of the URL, item the {itemId}
H_UpdateRejectItem(w, hdr, item, it) ==
    /\ req[w].op = "idle"
    /\ LET err == IF RejectGate(hdr) # "ok" THEN RejectGate(hdr)
                  ELSE IF it.quantity <= 0 THEN "InvalidQuantity"
                  ELSE "ok"
       IN  IF err # "ok"
           THEN /\ Respond(w, "UpdateRejectItem", err, hdr, item)
                /\ UNCHANGED req
           ELSE /\ req' = [req EXCEPT ![w] =
                     [Idle EXCEPT !.op = "UpdateRejectItem", !.hdr = hdr,
                        !.item = item,
                        !.product = it.product, !.quantity = it.quantity,
                        !.unit_cost = it.unit_cost,
                        !.subtotal = ResolveSubtotal(it)]]
                /\ UNCHANGED resp
    /\ StoreUnchanged

\* RejectRepositoryImpl.UpdateRejectItem: the item is updated WHERE id = $7 AND
\* deleted_at IS NULL, the total of the reject the handler named is recomputed
R_UpdateRejectItem(w) ==
    /\ req[w].op = "UpdateRejectItem"
    /\ LET r     == req[w]
           items == IF r.item \in DOMAIN reject_items /\ ~reject_items[r.item].deleted
                    THEN [reject_items EXCEPT
                            ![r.item].product = r.product,
                            ![r.item].quantity = r.quantity,
                            ![r.item].unit_cost = r.unit_cost,
                            ![r.item].subtotal = r.subtotal]
                    ELSE reject_items
       IN  /\ reject_items' = items
           /\ rejects' = [rejects EXCEPT ![r.hdr].total = SumSubtotal(items, r.hdr)]
           /\ Respond(w, "UpdateRejectItem", "ok", r.hdr, r.item)
    /\ req' = [req EXCEPT ![w] = Idle]
    /\ UNCHANGED stock
    /\ StockInUnchanged /\ SaleUnchanged /\ PartiesUnchanged

\* RejectHandler.DeleteRejectItem, up to the repository call
H_DeleteRejectItem(w, hdr, item) ==
    /\ req[w].op = "idle"
    /\ IF RejectGate(hdr) # "ok"
       THEN /\ Respond(w, "DeleteRejectItem", RejectGate(hdr), hdr, item)
            /\ UNCHANGED req
       ELSE /\ req' = [req EXCEPT ![w] =
                 [Idle EXCEPT !.op = "DeleteRejectItem", !.hdr = hdr, !.item = item]]
            /\ UNCHANGED resp
    /\ StoreUnchanged

\* RejectRepositoryImpl.DeleteRejectItem: the reject id is read from the item
\* WHERE id = $1 AND deleted_at IS NULL; no row is an error
R_DeleteRejectItem(w) ==
    /\ req[w].op = "DeleteRejectItem"
    /\ LET r == req[w]
       IN  IF r.item \notin DOMAIN reject_items \/ reject_items[r.item].deleted
           THEN /\ Respond(w, "DeleteRejectItem", "ServerError", r.hdr, r.item)
                /\ UNCHANGED <<rejects, reject_items>>
           ELSE LET rejectID == reject_items[r.item].parent
                    items == [reject_items EXCEPT ![r.item].deleted = TRUE]
                IN  /\ reject_items' = items
                    /\ rejects' = [rejects EXCEPT
                                     ![rejectID].total = SumSubtotal(items, rejectID)]
                    /\ Respond(w, "DeleteRejectItem", "ok", rejectID, r.item)
    /\ req' = [req EXCEPT ![w] = Idle]
    /\ UNCHANGED stock
    /\ StockInUnchanged /\ SaleUnchanged /\ PartiesUnchanged

\* ======================================================================= sale
\* a sale item as decoded from JSON
SaleItemInputs == [product : Products, quantity : Quantities,
                   unit_price : UnitCosts, tax : {0, 1}, discount : {0, 1}]

\* SaleItem.CalculateSubtotal
CalculateSubtotal(i) == (i.unit_price * i.quantity) + i.tax - i.discount

\* the total of Sale.CalculateTotals: the sum of the items' computed subtotals
RECURSIVE CalculateTotals(_)
CalculateTotals(items) ==
    IF items = << >> THEN 0
    ELSE CalculateSubtotal(Head(items)) + CalculateTotals(Tail(items))

\* SaleHandler.CreateSale, up to the repository call: Sale.Validate wants one
\* item at least; the totals are calculated "if not provided"
H_CreateSaleFor(w, customer, status, total, paid, balance, items) ==
    /\ req[w].op = "idle"
    /\ Len(sales) + Pending("CreateSale") < MaxSales
    /\ IF Len(items) = 0
       THEN /\ Respond(w, "CreateSale", "NoItems", 0, 0)
            /\ UNCHANGED req
       ELSE IF customer # NoParty /\ customer \notin Customers
       THEN /\ Respond(w, "CreateSale", "CustomerNotFound", 0, 0)
            /\ UNCHANGED req
       ELSE /\ req' = [req EXCEPT ![w] =
                 [Idle EXCEPT !.op = "CreateSale", !.status = status,
                    !.party = customer,
                    !.total = IF total = 0 THEN CalculateTotals(items) ELSE total,
                    !.items = items,
                    !.quantity = paid,
                    !.subtotal = IF total = 0 THEN CalculateTotals(items) - paid
                                 ELSE balance]]
            /\ UNCHANGED resp
    /\ StoreUnchanged

\* the same for a request without customer_id
H_CreateSale(w, status, total, paid, balance, items) ==
    H_CreateSaleFor(w, NoParty, status, total, paid, balance, items)

\* SaleRepositoryImpl.Create: inserts the sales row; it has no statement for
\* sale_items and none for products.  The request's paid and balance travel in
\* the quantity and subtotal fields of req.
R_CreateSale(w) ==
    /\ req[w].op = "CreateSale"
    /\ LET r == req[w]
       IN  /\ sales' = Append(sales,
                  [status |-> r.status, total |-> r.total, paid |-> r.quantity,
                   balance |-> r.subtotal, customer |-> r.party,
                   deleted |-> FALSE])
           /\ customers' =
                  IF r.party \in Customers
                  THEN [customers EXCEPT
                          ![r.party].total_orders = @ + 1,
                          ![r.party].total_spent = @ + r.total]
                  ELSE customers
           /\ Respond(w, "CreateSale", "ok", Len(sales) + 1, 0)
    /\ req' = [req EXCEPT ![w] = Idle]
    /\ UNCHANGED <<stock, sale_items, suppliers>>
    /\ StockInUnchanged /\ RejectUnchanged

\* A Sale object in a handler's memory is held in req[w]: status, total and
\* items under their names, paid in the quantity field and balance in the
\* subtotal field.
\* Sale.CalculateTotals
SaleCalculateTotals(s) ==
    [s EXCEPT !.total = CalculateTotals(s.items),
              !.subtotal = CalculateTotals(s.items) - s.quantity]

\* Sale.AddPayment that leaves the balance alone
AddPayment_KeepBalance(s, amount) ==
    [s EXCEPT !.quantity = s.quantity + amount]

\* Sale.AddPayment
AddPayment(s, amount) ==
    [s EXCEPT !.quantity = s.quantity + amount,
              !.subtotal = s.total - (s.quantity + amount)]

\* Sale.UpdateStatus
UpdateStatus(s, status) ==
    IF status = "completed"
    THEN [s EXCEPT !.status = status, !.subtotal = 0, !.quantity = s.total]
    ELSE [s EXCEPT !.status = status]

\* a payment amount
PaymentAmounts == {1, 2}

\* a handler decodes or builds a Sale: a new object with its items, no payment
\* and the zero totals
NewSale(w, items) ==
    /\ req[w].op = "idle"
    /\ req' = [req EXCEPT ![w] =
          [Idle EXCEPT !.op = "Sale", !.status = "draft", !.items = items]]
    /\ UNCHANGED resp
    /\ StoreUnchanged

\* the items of the object are replaced (existing.Items = sale.Items)
SetSaleItems(w, items) ==
    /\ req[w].op = "Sale"
    /\ req' = [req EXCEPT ![w].items = items]
    /\ UNCHANGED resp
    /\ StoreUnchanged

\* a call of Sale.CalculateTotals on the object
CallCalculateTotals(w) ==
    /\ req[w].op = "Sale"
    /\ req' = [req EXCEPT ![w] = SaleCalculateTotals(req[w])]
    /\ UNCHANGED resp
    /\ StoreUnchanged

\* a call of Sale.AddPayment on the object
CallAddPayment(w, amount) ==
    /\ req[w].op = "Sale"
    /\ req[w].quantity + amount <= MaxPaid
    /\ req' = [req EXCEPT ![w] = AddPayment(req[w], amount)]
    /\ UNCHANGED resp
    /\ StoreUnchanged

\* a call of Sale.UpdateStatus on the object
CallUpdateStatus(w, status) ==
    /\ req[w].op = "Sale"
    /\ req' = [req EXCEPT ![w] = UpdateStatus(req[w], status)]
    /\ UNCHANGED resp
    /\ StoreUnchanged

\* update_product_quantity_after_sale (AFTER UPDATE ON sales): when the status
\* becomes 'completed' its UPDATE names products.quantity, a column the
\* products table does not have, so the statement that fired it fails
SaleTriggerRaises(oldStatus, newStatus) ==
    newStatus = "completed" /\ oldStatus # "completed"

\* SaleHandler.UpdateSale, up to the repository call.  GetByID answers
\* (nil, nil) for a missing sale: a request that passes Sale.Validate then
\* dereferences the nil pointer and the server drops the request.  The status
\* is assigned to the field, the totals are recalculated from the request's
\* items with the paid amount that was read.
H_UpdateSale(w, id, customer, status, items) ==
    /\ req[w].op = "idle"
    /\ LET err == IF Len(items) = 0 THEN "NoItems"
                  ELSE IF ~Visible(sales, id) THEN "Panic"
                  ELSE IF /\ customer # NoParty
                          /\ customer # sales[id].customer
                          /\ customer \notin Customers THEN "CustomerNotFound"
                  ELSE "ok"
       IN  IF err # "ok"
           THEN /\ Respond(w, "UpdateSale", err, id, 0)
                /\ UNCHANGED req
           ELSE /\ req' = [req EXCEPT ![w] = SaleCalculateTotals(
                     [Idle EXCEPT !.op = "UpdateSale", !.hdr = id,
                                  !.status = status, !.party = customer,
                                  !.items = items,
                                  !.total = sales[id].total,
                                  !.quantity = sales[id].paid,
                                  !.subtotal = sales[id].balance])]
                /\ UNCHANGED resp
    /\ StoreUnchanged

\* SaleRepositoryImpl.Update: one UPDATE of the sales row, in a transaction
R_UpdateSale(w) ==
    /\ req[w].op = "UpdateSale"
    /\ LET r == req[w]
       IN  IF SaleTriggerRaises(sales[r.hdr].status, r.status)
           THEN /\ Respond(w, "UpdateSale", "ServerError", r.hdr, 0)
                /\ UNCHANGED sales
           ELSE /\ sales' = [sales EXCEPT ![r.hdr].status = r.status,
                                          ![r.hdr].total = r.total,
                                          ![r.hdr].paid = r.quantity,
                                          ![r.hdr].balance = r.subtotal,
                                          ![r.hdr].customer = r.party]
                /\ Respond(w, "UpdateSale", "ok", r.hdr, 0)
    /\ req' = [req EXCEPT ![w] = Idle]
    /\ UNCHANGED <<stock, sale_items>>
    /\ StockInUnchanged /\ RejectUnchanged /\ PartiesUnchanged

\* SaleHandler.DeleteSale with SaleRepositoryImpl.Delete: GetByID answers
\* (nil, nil) for a missing sale, so the handler goes on to the UPDATE in
\* every case
DeleteSale(w, id) ==
    /\ req[w].op = "idle"
    /\ sales' = IF id \in DOMAIN sales
                THEN [sales EXCEPT ![id].deleted = TRUE] ELSE sales
    /\ Respond(w, "DeleteSale", "ok", id, 0)
    /\ UNCHANGED <<req, stock, sale_items>>
    /\ StockInUnchanged /\ RejectUnchanged /\ PartiesUnchanged

\* ==================================================================== product
\* ProductRepositoryImpl.UpdateStock, first statement: GetByID reads the
\* product, and newStock is computed from the value read; a newStock below 0
\* is refused. The value computed travels in req.total.
UpdateStockRead(w, id, quantity) ==
    /\ req[w].op = "idle"
    /\ LET newStock == stock[id] + quantity
       IN  IF newStock < 0
           THEN /\ Respond(w, "UpdateStock", "InsufficientStock", 0, 0)
                /\ UNCHANGED req
           ELSE /\ req' = [req EXCEPT ![w] =
                     [Idle EXCEPT !.op = "UpdateStock", !.product = id,
                                  !.quantity = quantity, !.total = newStock]]
                /\ UNCHANGED resp
    /\ StoreUnchanged

\* ProductRepositoryImpl.UpdateStock, second statement:
\* UPDATE products SET stock = $1 with the value computed from the earlier read
UpdateStockWrite(w) ==
    /\ req[w].op = "UpdateStock"
    /\ stock' = [stock EXCEPT ![req[w].product] = req[w].total]
    /\ InRange(stock')
    /\ Respond(w, "UpdateStock", "ok", 0, 0)
    /\ req' = [req EXCEPT ![w] = Idle]
    /\ StockInUnchanged /\ RejectUnchanged /\ SaleUnchanged /\ PartiesUnchanged

\* ================================================ a create whose transaction fails
\* the tables as one value
Store == [stock |-> stock, stock_ins |-> stock_ins,
          stock_in_items |-> stock_in_items, rejects |-> rejects,
          reject_items |-> reject_items, sales |-> sales,
          sale_items |-> sale_items, suppliers |-> suppliers,
          customers |-> customers]

SetStore(st) ==
    /\ stock' = st.stock
    /\ stock_ins' = st.stock_ins
    /\ stock_in_items' = st.stock_in_items
    /\ rejects' = st.rejects
    /\ reject_items' = st.reject_items
    /\ sales' = st.sales
    /\ sale_items' = st.sale_items
    /\ suppliers' = st.suppliers
    /\ customers' = st.customers

Min(a, b) == IF a < b THEN a ELSE b

\* a transaction that returns without rolling back what it wrote
Rollback_Keep(before, partial) == partial

\* "defer tx.Rollback(ctx)": a transaction that returns before its commit has
\* succeeded leaves the tables as they were when it began
Rollback(before, partial) == before

ItemRows(id, items) ==
    [i \in DOMAIN items |->
        [parent |-> id, product |-> items[i].product,
         quantity |-> items[i].quantity, unit_cost |-> items[i].unit_cost,
         subtotal |-> items[i].subtotal, deleted |-> FALSE]]

\* what the transaction of StockInRepositoryImpl.Create has written when k of
\* its statements have succeeded: the header, then for each item the INSERT
\* and the UPDATE of products, then the UPDATE of the supplier
PartialCreateStockIn(r, k) ==
    LET n    == Len(r.items)
        id   == Len(stock_ins) + 1
        rows == SubSeq(r.items, 1, Min(n, k \div 2))
        upds == SubSeq(r.items, 1, Min(n, (k + 1) \div 2 - 1))
    IN  IF k = 0 THEN Store
        ELSE [Store EXCEPT
                !.stock_ins = Append(stock_ins,
                    [status |-> r.status, total |-> r.total, deleted |-> FALSE]),
                !.stock_in_items = stock_in_items \o ItemRows(id, rows),
                !.stock = ApplyItems(stock, upds, 1),
                !.suppliers =
                    IF k >= 2 * n + 2 /\ r.party \in Suppliers
                    THEN [suppliers EXCEPT
                            ![r.party].total_purchases = @ + 1,
                            ![r.party].total_spent = @ + r.total]
                    ELSE suppliers]

\* StockInRepositoryImpl.Create when its statement number k + 1, or for the
\* largest k its commit, returns an error
R_CreateStockInFails(w, k) ==
    /\ req[w].op = "CreateStockIn"
    /\ k \in 0..(2 * Len(req[w].items) + 2)
    /\ SetStore(Rollback(Store, PartialCreateStockIn(req[w], k)))
    /\ Respond(w, "CreateStockIn", "ServerError", 0, 0)
    /\ req' = [req EXCEPT ![w] = Idle]

\* what the transaction of RejectRepositoryImpl.Create has written when k of
\* its statements have succeeded: the header, the items, the UPDATE of the total
PartialCreateReject(r, k) ==
    LET n    == Len(r.items)
        id   == Len(rejects) + 1
        rows == SubSeq(r.items, 1, Min(n, k - 1))
    IN  IF k = 0 THEN Store
        ELSE [Store EXCEPT
                !.rejects = Append(rejects,
                    [status |-> r.status,
                     total |-> IF k >= n + 2 /\ r.total = 0 /\ n > 0
                               THEN SumSeq(r.items, "subtotal") ELSE r.total,
                     deleted |-> FALSE]),
                !.reject_items = reject_items \o ItemRows(id, rows)]

\* RejectRepositoryImpl.Create when a statement or the commit returns an error
R_CreateRejectFails(w, k) ==
    /\ req[w].op = "CreateReject"
    /\ k \in 0..(Len(req[w].items) + 2)
    /\ SetStore(Rollback(Store, PartialCreateReject(req[w], k)))
    /\ Respond(w, "CreateReject", "ServerError", 0, 0)
    /\ req' = [req EXCEPT ![w] = Idle]

\* what the transaction of SaleRepositoryImpl.Create has written when k of its
\* statements have succeeded: the header, the UPDATE of the customer
PartialCreateSale(r, k) ==
    IF k = 0 THEN Store
    ELSE [Store EXCEPT
            !.sales = Append(sales,
                [status |-> r.status, total |-> r.total, paid |-> r.quantity,
                 balance |-> r.subtotal, customer |-> r.party,
                 deleted |-> FALSE]),
            !.customers =
                IF k >= 2 /\ r.party \in Customers
                THEN [customers EXCEPT
                        ![r.party].total_orders = @ + 1,
                        ![r.party].total_spent = @ + r.total]
                ELSE customers]

\* SaleRepositoryImpl.Create when a statement or the commit returns an error
R_CreateSaleFails(w, k) ==
    /\ req[w].op = "CreateSale"
    /\ k \in 0..2
    /\ SetStore(Rollback(Store, PartialCreateSale(req[w], k)))
    /\ Respond(w, "CreateSale", "ServerError", 0, 0)
    /\ req' = [req EXCEPT ![w] = Idle]

\* DELETE /stockins/{stockInId}/items/{itemId} from a client that names an
\* item it has not deleted before
DeleteLiveStockInItem(w, item) ==
    /\ item \in DOMAIN stock_in_items
    /\ ~stock_in_items[item].deleted
    /\ DeleteStockInItem(w, item)

\* PUT /stockins/{stockInId}/items/{itemId} from a client that names the item
\* under the stock-in that owns it
UpdateOwnStockInItem(w, item, it) ==
    /\ item \in DOMAIN stock_in_items
    /\ UpdateStockInItem(w, stock_in_items[item].parent, item, it)

\* request items that leave the subtotal to the handler
PlainItems == {it \in ItemInputs : it.subtotal = 0}

\* the same, all naming product p1
P1Items == {it \in PlainItems : it.product = "p1"}

\* sale items naming product p1, without tax and discount
P1SaleItems == {it \in SaleItemInputs :
                    it.product = "p1" /\ it.tax = 0 /\ it.discount = 0}

\* ------------------------------------------------------------ specifications
\* One client creates empty draft stock-ins and then adds, updates and deletes
\* their items.
NextStockInItems ==
    \/ H_CreateStockIn(1, "draft", 0, NoItems)
    \/ R_CreateStockIn(1)
    \/ \E id \in 1..MaxStockIns, it \in PlainItems : H_AddStockInItem(1, id, it)
    \/ R_AddStockInItem(1)
    \/ \E hdr \in 1..MaxStockIns, item \in 1..MaxStockInItems, it \in PlainItems :
            UpdateStockInItem(1, hdr, item, it)
    \/ \E item \in 1..MaxStockInItems : DeleteStockInItem(1, item)

SpecStockInItems == Init /\ [][NextStockInItems]_vars

\* One client creates pending rejects whose total it leaves to the repository
\* and then adds, updates and deletes their items.
NextRejectItems ==
    \/ \E items \in UNION {[1..k -> PlainItems] : k \in 0..1} :
            H_CreateReject(1, "pending", 0, items)
    \/ R_CreateReject(1)
    \/ \E id \in 1..MaxRejects, it \in PlainItems : H_AddRejectItem(1, id, it)
    \/ R_AddRejectItem(1)
    \/ \E hdr \in 1..MaxRejects, item \in 1..MaxRejectItems, it \in PlainItems :
            H_UpdateRejectItem(1, hdr, item, it)
    \/ R_UpdateRejectItem(1)
    \/ \E hdr \in 1..MaxRejects, item \in 1..MaxRejectItems :
            H_DeleteRejectItem(1, hdr, item)
    \/ R_DeleteRejectItem(1)

SpecRejectItems == Init /\ [][NextRejectItems]_vars

\* One client creates transactions of the three families, with and without a
\* total of its own.
NextCreate ==
    \/ \E t \in CallerAmounts, items \in UNION {[1..k -> P1Items] : k \in 0..1} :
            H_CreateStockIn(1, "draft", t, items)
    \/ R_CreateStockIn(1)
    \/ \E t \in CallerAmounts, items \in UNION {[1..k -> P1Items] : k \in 0..1} :
            H_CreateReject(1, "pending", t, items)
    \/ R_CreateReject(1)
    \/ \E t \in CallerAmounts, items \in UNION {[1..k -> P1SaleItems] : k \in 0..1} :
            H_CreateSale(1, "draft", t, 0, t, items)
    \/ R_CreateSale(1)

SpecCreate == Init /\ [][NextCreate]_vars

\* One client creates stock-ins and rejects, adds items, and reverses them:
\* it deletes items that are not yet deleted, and deletes whole transactions.
NextReversal ==
    \/ \E items \in UNION {[1..k -> P1Items] : k \in 0..1} :
            H_CreateStockIn(1, "draft", 0, items)
    \/ R_CreateStockIn(1)
    \/ \E id \in 1..MaxStockIns, it \in P1Items : H_AddStockInItem(1, id, it)
    \/ R_AddStockInItem(1)
    \/ \E item \in 1..MaxStockInItems : DeleteLiveStockInItem(1, item)
    \/ \E id \in 1..MaxStockIns : H_DeleteStockIn(1, id)
    \/ R_DeleteStockIn(1)
    \/ \E items \in UNION {[1..k -> P1Items] : k \in 0..1} :
            H_CreateReject(1, "pending", 0, items)
    \/ R_CreateReject(1)
    \/ \E id \in 1..MaxRejects : H_DeleteReject(1, id)
    \/ R_DeleteReject(1)

SpecReversal == Init /\ [][NextReversal]_vars

\* Two clients move the stock of product p1 at the same time: through items
\* added to a draft stock-in and through ProductRepository.UpdateStock.
NextMovements ==
    \/ H_CreateStockIn(1, "draft", 0, NoItems)
    \/ R_CreateStockIn(1)
    \/ \E w \in Workers, id \in 1..MaxStockIns, it \in P1Items :
            H_AddStockInItem(w, id, it)
    \/ \E w \in Workers : R_AddStockInItem(w)
    \/ \E w \in Workers, quantity \in Deltas : UpdateStockRead(w, "p1", quantity)
    \/ \E w \in Workers : UpdateStockWrite(w)

SpecMovements == Init /\ [][NextMovements]_vars

\* One client receives stock through stock-ins and creates pending rejects of
\* up to two items, then changes the status of the rejects.
NextRejectStatus ==
    \/ \E items \in UNION {[1..k -> P1Items] : k \in 0..1} :
            H_CreateStockIn(1, "draft", 0, items)
    \/ R_CreateStockIn(1)
    \/ \E items \in UNION {[1..k -> PlainItems] : k \in 0..MaxRejectItems} :
            H_CreateReject(1, "pending", 0, items)
    \/ R_CreateReject(1)
    \/ \E id \in 1..MaxRejects, status \in RejectStatuses :
            H_UpdateReject(1, id, status, 0)
    \/ R_UpdateReject(1)

SpecRejectStatus == Init /\ [][NextRejectStatus]_vars

\* Two clients create rejects of one item on product p1 and complete them at
\* the same time.
NextConcurrentRejects ==
    \/ \E w \in Workers, status \in {"pending", "completed"},
          items \in [1..1 -> P1Items] :
            H_CreateReject(w, status, 0, items)
    \/ \E w \in Workers : R_CreateReject(w)
    \/ \E w \in Workers, id \in 1..MaxRejects :
            H_UpdateReject(w, id, "completed", 0)
    \/ \E w \in Workers : R_UpdateReject(w)

SpecConcurrentRejects == Init /\ [][NextConcurrentRejects]_vars

\* One client receives stock on product p1 and creates rejects, pending or
\* completed, whose items ask for less than, exactly, or more than the stock.
NextCreateReject ==
    \/ \E items \in [1..1 -> P1Items] : H_CreateStockIn(1, "draft", 0, items)
    \/ R_CreateStockIn(1)
    \/ \E status \in {"pending", "completed"},
          items \in UNION {[1..k -> PlainItems] : k \in 0..MaxRejectItems} :
            H_CreateReject(1, status, 0, items)
    \/ R_CreateReject(1)

SpecCreateReject == Init /\ [][NextCreateReject]_vars

\* requests to create a reject of up to two items on product p1
P1ItemLists == UNION {[1..k -> P1Items] : k \in 0..2}

\* One client creates rejects, pending or completed, on product p1, whose
\* stock is anything from nothing to the largest quantity a request can name.
NextRefuseReject ==
    \/ \E status \in {"pending", "completed"}, items \in P1ItemLists :
            H_CreateReject(1, status, 0, items)
    \/ R_CreateReject(1)

SpecRefuseReject == InitAnyStock /\ [][NextRefuseReject]_vars

\* requests to create a stock-in of up to two items of a positive quantity
StockInItemLists ==
    UNION {[1..k -> {it \in PlainItems : it.quantity > 0}] : k \in 0..2}

\* One client creates stock-ins of every status with their items, and adds
\* items to the stock-ins it finds.
NextStockInStatus ==
    \/ \E status \in StockInStatuses, items \in StockInItemLists :
            H_CreateStockIn(1, status, 0, items)
    \/ R_CreateStockIn(1)
    \/ \E id \in 1..MaxStockIns, it \in {x \in P1Items : x.quantity > 0} :
            H_AddStockInItem(1, id, it)
    \/ R_AddStockInItem(1)

SpecStockInStatus == Init /\ [][NextStockInStatus]_vars

\* One client creates draft stock-ins of one item and then updates the items,
\* changing their quantity, their product or both.
NextUpdateItem ==
    \/ \E items \in [1..1 -> PlainItems] : H_CreateStockIn(1, "draft", 0, items)
    \/ R_CreateStockIn(1)
    \/ \E item \in 1..MaxStockInItems, it \in PlainItems :
            UpdateOwnStockInItem(1, item, it)

SpecUpdateItem == Init /\ [][NextUpdateItem]_vars

\* requests of one or two items of quantity 1
UnitItemLists == UNION {[1..k -> {it \in PlainItems : it.quantity = 1}] : k \in 1..2}
UnitSaleItemLists == [1..1 -> {it \in P1SaleItems : it.quantity = 1}]

\* One client creates up to MaxStockIns transactions in all, of any of the
\* three families, with or without a supplier or customer; each create goes
\* through or fails at any of its statements.
NextCreateFaults ==
    \/ /\ Len(stock_ins) + Len(rejects) + Len(sales) < MaxStockIns
       /\ \/ \E supplier \in Suppliers \cup {NoParty}, items \in UnitItemLists :
                H_CreateStockInFor(1, supplier, "draft", 0, items)
          \/ \E items \in UnitItemLists : H_CreateReject(1, "pending", 0, items)
          \/ \E customer \in Customers \cup {NoParty}, items \in UnitSaleItemLists :
                H_CreateSaleFor(1, customer, "draft", 0, 0, 0, items)
    \/ R_CreateStockIn(1)
    \/ \E k \in 0..(2 * MaxStockInItems + 2) : R_CreateStockInFails(1, k)
    \/ R_CreateReject(1)
    \/ \E k \in 0..(MaxRejectItems + 2) : R_CreateRejectFails(1, k)
    \/ R_CreateSale(1)
    \/ \E k \in 0..2 : R_CreateSaleFails(1, k)

SpecCreateFaults == Init /\ [][NextCreateFaults]_vars

\* One client creates up to MaxStockIns transactions in all, stock-ins of any
\* status and pending rejects, each with one item of quantity 1 on product p1,
\* changes the status of the rejects, and adds, updates and deletes items under
\* the transaction that owns them.
LockedItemInputs == {it \in P1Items : it.quantity = 1}

NextLockedItems ==
    \/ /\ Len(stock_ins) + Len(rejects) < MaxStockIns
       /\ \/ \E status \in StockInStatuses, items \in [1..1 -> LockedItemInputs] :
                H_CreateStockIn(1, status, 0, items)
          \/ \E items \in [1..1 -> LockedItemInputs] :
                H_CreateReject(1, "pending", 0, items)
    \/ R_CreateStockIn(1)
    \/ R_CreateReject(1)
    \/ \E item \in DOMAIN stock_in_items, it \in P1Items :
            UpdateOwnStockInItem(1, item, it)
    \/ \E item \in DOMAIN stock_in_items : DeleteLiveStockInItem(1, item)
    \/ \E id \in DOMAIN rejects, status \in RejectStatuses :
            H_UpdateReject(1, id, status, 0)
    \/ R_UpdateReject(1)
    \/ \E id \in DOMAIN rejects, it \in LockedItemInputs :
            H_AddRejectItem(1, id, it)
    \/ R_AddRejectItem(1)
    \/ \E item \in DOMAIN reject_items, it \in P1Items :
            H_UpdateRejectItem(1, reject_items[item].parent, item, it)
    \/ R_UpdateRejectItem(1)
    \/ \E item \in DOMAIN reject_items :
            H_DeleteRejectItem(1, reject_items[item].parent, item)
    \/ R_DeleteRejectItem(1)

SpecLockedItems == Init /\ [][NextLockedItems]_vars

\* One client creates rejects of any status with at most one item of quantity
\* 1 on product p1, changes their status and deletes them.
DeleteRejectItemLists == UNION {[1..k -> LockedItemInputs] : k \in 0..1}

NextDeleteReject ==
    \/ \E status \in RejectStatuses, items \in DeleteRejectItemLists :
            H_CreateReject(1, status, 0, items)
    \/ R_CreateReject(1)
    \/ \E id \in 1..MaxRejects, status \in RejectStatuses :
            H_UpdateReject(1, id, status, 0)
    \/ R_UpdateReject(1)
    \/ \E id \in 1..MaxRejects : H_DeleteReject(1, id)
    \/ R_DeleteReject(1)

SpecDeleteReject == Init /\ [][NextDeleteReject]_vars

\* One client creates sales of one or two items on product p1, leaving the
\* totals to the handler, and updates their status, customer and items.
UpdateSaleItemLists == UNION {[1..k -> P1SaleItems] : k \in 0..2}

NextUpdateSale ==
    \/ \E status \in SaleStatuses, items \in UpdateSaleItemLists :
            H_CreateSale(1, status, 0, 0, 0, items)
    \/ R_CreateSale(1)
    \/ \E id \in 1..MaxSales, customer \in Customers \cup {NoParty, "c9"},
          status \in SaleStatuses,
          items \in UNION {[1..k -> P1SaleItems] : k \in 0..1} :
            H_UpdateSale(1, id, customer, status, items)
    \/ R_UpdateSale(1)

SpecUpdateSale == Init /\ [][NextUpdateSale]_vars

\* One Sale object with one or two items on product p1 goes through any
\* sequence of CalculateTotals, AddPayment and UpdateStatus calls, its items
\* being replaced in between.
SaleObjectItemLists == UNION {[1..k -> P1SaleItems] : k \in 1..2}

NextSaleObject ==
    \/ \E items \in SaleObjectItemLists : NewSale(1, items)
    \/ \E items \in SaleObjectItemLists : SetSaleItems(1, items)
    \/ CallCalculateTotals(1)
    \/ \E amount \in PaymentAmounts : CallAddPayment(1, amount)
    \/ \E status \in SaleStatuses : CallUpdateStatus(1, status)

SpecSaleObject == Init /\ [][NextSaleObject]_vars

\* One client creates up to MaxStockIns transactions in all, draft stock-ins
\* and pending rejects of one item on product p1, adds items to the stock-ins
\* and updates items of both; every item comes with or without a subtotal of
\* the caller's.
CallerItems == {it \in ItemInputs : it.product = "p1" /\ it.quantity > 0}

NextSubtotals ==
    \/ /\ Len(stock_ins) + Len(rejects) < MaxStockIns
       /\ \/ \E items \in [1..1 -> CallerItems] :
                H_CreateStockIn(1, "draft", 0, items)
          \/ \E items \in [1..1 -> CallerItems] :
                H_CreateReject(1, "pending", 0, items)
    \/ R_CreateStockIn(1)
    \/ R_CreateReject(1)
    \/ \E id \in DOMAIN stock_ins, it \in CallerItems : H_AddStockInItem(1, id, it)
    \/ R_AddStockInItem(1)
    \/ \E item \in DOMAIN stock_in_items, it \in CallerItems :
            UpdateOwnStockInItem(1, item, it)
    \/ \E item \in DOMAIN reject_items, it \in CallerItems :
            H_UpdateRejectItem(1, reject_items[item].parent, item, it)
    \/ R_UpdateRejectItem(1)

SpecSubtotals == Init /\ [][NextSubtotals]_vars

\* One client works on one family and on one transaction at a time: it
\* creates a stock-in or a sale, with or without a supplier or customer and a
\* total of the caller's, adds, updates and deletes the stock-in's items,
\* updates the transaction and deletes it before it creates the next.
NoneLive(tbl) == \A h \in DOMAIN tbl : tbl[h].deleted

NextRollup ==
    \/ /\ sales = << >> /\ NoneLive(stock_ins)
       /\ \E supplier \in Suppliers \cup {NoParty}, total \in CallerAmounts,
             items \in UNION {[1..k -> LockedItemInputs] : k \in 0..1} :
             H_CreateStockInFor(1, supplier, "draft", total, items)
    \/ /\ stock_ins = << >> /\ NoneLive(sales)
       /\ \E customer \in Customers \cup {NoParty}, total \in CallerAmounts,
             items \in UnitSaleItemLists :
             H_CreateSaleFor(1, customer, "draft", total, 0, total, items)
    \/ R_CreateStockIn(1)
    \/ R_CreateSale(1)
    \/ \E id \in DOMAIN stock_ins, it \in LockedItemInputs :
            H_AddStockInItem(1, id, it)
    \/ R_AddStockInItem(1)
    \/ \E item \in DOMAIN stock_in_items, it \in LockedItemInputs :
            UpdateOwnStockInItem(1, item, it)
    \/ \E item \in DOMAIN stock_in_items : DeleteLiveStockInItem(1, item)
    \/ \E id \in DOMAIN stock_ins : H_UpdateStockIn(1, id, "cancelled", 0)
    \/ R_UpdateStockIn(1)
    \/ \E id \in DOMAIN stock_ins : H_DeleteStockIn(1, id)
    \/ R_DeleteStockIn(1)
    \/ \E id \in DOMAIN sales, customer \in Customers,
          items \in UnitSaleItemLists :
            H_UpdateSale(1, id, customer, "cancelled", items)
    \/ R_UpdateSale(1)
    \/ \E id \in DOMAIN sales : DeleteSale(1, id)

SpecRollup == Init /\ [][NextRollup]_vars

\* request items that name a product, a soft-deleted product or no product
AnyProductItems == [product : {"p1"} \cup DeletedProducts \cup MissingProducts,
                    quantity : 1..MaxQty, unit_cost : UnitCosts, subtotal : {0}]

\* One client creates draft stock-ins of one item, adds items and updates
\* items; the items name a product, a soft-deleted product or a product that
\* does not exist.
NextAnyProduct ==
    \/ \E items \in [1..1 -> AnyProductItems] : H_CreateStockIn(1, "draft", 0, items)
    \/ R_CreateStockIn(1)
    \/ \E id \in DOMAIN stock_ins, it \in AnyProductItems :
            H_AddStockInItem(1, id, it)
    \/ R_AddStockInItem(1)
    \/ \E item \in DOMAIN stock_in_items, it \in AnyProductItems :
            UpdateOwnStockInItem(1, item, it)

SpecAnyProduct == Init /\ [][NextAnyProduct]_vars

\* One client creates draft stock-ins with or without an item on product p1,
\* adds items to them and updates their status.
NextStockInLife ==
    \/ \E items \in UNION {[1..k -> LockedItemInputs] : k \in 0..1} :
            H_CreateStockIn(1, "draft", 0, items)
    \/ R_CreateStockIn(1)
    \/ \E id \in DOMAIN stock_ins, it \in LockedItemInputs :
            H_AddStockInItem(1, id, it)
    \/ R_AddStockInItem(1)
    \/ \E id \in DOMAIN stock_ins, status \in StockInStatuses :
            H_UpdateStockIn(1, id, status, 0)
    \/ R_UpdateStockIn(1)

SpecStockInLife == Init /\ [][NextStockInLife]_vars

\* Client 1 creates pending rejects of one item on product p1 and adds,
\* updates and deletes their items under the reject that owns them, while
\* client 2 completes or cancels the rejects.
NextRejectRace ==
    \/ \E items \in [1..1 -> LockedItemInputs] :
            H_CreateReject(1, "pending", 0, items)
    \/ R_CreateReject(1)
    \/ \E id \in DOMAIN rejects, status \in {"completed", "cancelled"} :
            H_UpdateReject(2, id, status, 0)
    \/ R_UpdateReject(2)
    \/ \E id \in DOMAIN rejects, it \in LockedItemInputs :
            H_AddRejectItem(1, id, it)
    \/ R_AddRejectItem(1)
    \/ \E item \in DOMAIN reject_items, it \in {x \in P1Items : x.quantity > 0} :
            H_UpdateRejectItem(1, reject_items[item].parent, item, it)
    \/ R_UpdateRejectItem(1)
    \/ \E item \in DOMAIN reject_items :
            H_DeleteRejectItem(1, reject_items[item].parent, item)
    \/ R_DeleteRejectItem(1)

SpecRejectRace == Init /\ [][NextRejectRace]_vars

\* Client 1 creates draft stock-ins with or without an item on product p1 and
\* adds items to them, while client 2 deletes stock-ins.
NextDeleteRace ==
    \/ \E items \in UNION {[1..k -> LockedItemInputs] : k \in 0..1} :
            H_CreateStockIn(1, "draft", 0, items)
    \/ R_CreateStockIn(1)
    \/ \E id \in DOMAIN stock_ins, it \in LockedItemInputs :
            H_AddStockInItem(1, id, it)
    \/ R_AddStockInItem(1)
    \/ \E id \in DOMAIN stock_ins : H_DeleteStockIn(2, id)
    \/ R_DeleteStockIn(2)

SpecDeleteRace == Init /\ [][NextDeleteRace]_vars

\* Client 1 creates draft stock-ins with or without an item on product p1, and
\* both clients delete stock-ins, one after the other or at the same time.
NextDoubleDelete ==
    \/ \E items \in UNION {[1..k -> LockedItemInputs] : k \in 0..1} :
            H_CreateStockIn(1, "draft", 0, items)
    \/ R_CreateStockIn(1)
    \/ \E w \in Workers, id \in 1..MaxStockIns : H_DeleteStockIn(w, id)
    \/ \E w \in Workers : R_DeleteStockIn(w)

SpecDoubleDelete == Init /\ [][NextDoubleDelete]_vars

\* --------------------------------------------------------------------- claims
\* C1: for every stock-in, after any sequence of committed AddStockInItem,
\* UpdateStockInItem and DeleteStockInItem operations, the stock-in's total
\* equals the sum of subtotal over its items that are not soft-deleted.
C1_StockInTotalIsSumOfLiveItems ==
    \A h \in DOMAIN stock_ins :
        stock_ins[h].total = SumSubtotal(stock_in_items, h)

\* C2: for every reject, after any sequence of committed AddRejectItem,
\* UpdateRejectItem and DeleteRejectItem operations, the reject's total equals
\* the sum of subtotal over its items that are not soft-deleted.
C2_RejectTotalIsSumOfLiveItems ==
    \A h \in DOMAIN rejects :
        rejects[h].total = SumSubtotal(reject_items, h)

\* C3: after a successful create of a transaction of any family with one or
\* more items, the persisted header total equals the sum of the persisted
\* items' subtotals, for every total value the caller put in the request.
C3_CreatedTotalIsSumOfItems ==
    LET r == resp[1]
    IN  r.code = "ok" =>
          /\ r.op = "CreateStockIn" /\ LiveItems(stock_in_items, r.hdr) # {}
               => stock_ins[r.hdr].total = SumSubtotal(stock_in_items, r.hdr)
          /\ r.op = "CreateReject" /\ LiveItems(reject_items, r.hdr) # {}
               => rejects[r.hdr].total = SumSubtotal(reject_items, r.hdr)
          /\ r.op = "CreateSale"
               => sales[r.hdr].total = SumSubtotal(sale_items, r.hdr)

C5_DeleteOfDeletedItemIsNoOp ==
    [][ /\ \A item \in DOMAIN stock_in_items :
              stock_in_items[item].deleted /\ DeleteStockInItem(1, item)
                => /\ stock' = stock
                   /\ stock_ins' = stock_ins
                   /\ stock_in_items' = stock_in_items
        /\ \A item \in DOMAIN reject_items :
              ( /\ reject_items[item].deleted
                /\ req[1].op = "DeleteRejectItem" /\ req[1].item = item
                /\ R_DeleteRejectItem(1) )
                => /\ stock' = stock
                   /\ rejects' = rejects
                   /\ reject_items' = reject_items ]_vars

\* C6: no lost update: under every interleaving of concurrent stock movements
\* on one product, each committed movement changes the stock by exactly its
\* delta, so that the stock ends at the initial stock plus the sum of the
\* deltas; this holds for the stock-in path and for UpdateStock.
C6_EveryMovementAppliesItsDelta ==
    [][ \A w \in Workers :
          /\ req[w].op = "UpdateStock" /\ UpdateStockWrite(w)
               => stock'[req[w].product] = stock[req[w].product] + req[w].quantity
          /\ req[w].op = "AddStockInItem" /\ R_AddStockInItem(w)
                /\ resp'[w].code = "ok"
               => stock'[req[w].product] = stock[req[w].product] + req[w].quantity
      ]_vars

\* C7: no step leaves a product's stock negative as a result of a completed
\* reject, and a stock-in operation never decreases a product's stock.
C7_StockNeverNegative ==
    [][ /\ \A p \in Products : stock'[p] >= 0
        /\ req[1].op \in {"CreateStockIn", "AddStockInItem"}
             => \A p \in Products : stock'[p] >= stock[p] ]_vars

\* C8: the stock check of a reject is part of the atomic unit that applies the
\* decrease: under any interleaving of two clients creating or completing
\* rejects of one item each, a commit of a request that passed the check
\* leaves the stock of the product at 0 or more.
C8_CheckedRejectCommitKeepsStock ==
    [][ \A w \in Workers :
          ( /\ req[w].op \in {"CreateReject", "UpdateReject"}
            /\ req'[w].op = "idle" )
          => \A i \in DOMAIN reject_items' :
                stock'[reject_items'[i].product] >= 0 ]_vars

\* C9: boundary: a reject created as completed with one item whose quantity
\* equals the product's stock succeeds and drives that stock to exactly 0, and
\* one with an item of the stock plus one never reaches the repository.
C9_RejectAtBoundary ==
    [][ /\ ( /\ req'[1].op = "CreateReject" /\ req'[1].status = "completed" )
             => \A i \in DOMAIN req'[1].items :
                    req'[1].items[i].quantity <= stock[req'[1].items[i].product]
        /\ ( /\ req[1].op = "CreateReject" /\ req[1].status = "completed"
             /\ req'[1].op = "idle"
             /\ Len(req[1].items) = 1
             /\ req[1].items[1].quantity = stock[req[1].items[1].product] )
             => /\ resp'[1].code = "ok"
                /\ stock'[req[1].items[1].product] = 0 ]_vars

\* a request to create a reject whose items all pass the checks made before
\* the stock check, and one of whose items asks for more than the stock
OverStock(items) ==
    /\ \A i \in DOMAIN items : items[i].quantity > 0
    /\ \E i \in DOMAIN items : items[i].quantity > stock[items[i].product]

\* the answer of a create that is refused for stock before any write
RefusedBeforeWrite ==
    /\ resp'[1] = [op |-> "CreateReject", code |-> "InsufficientStock",
                   hdr |-> 0, item |-> 0]
    /\ req'[1].op = "idle"
    /\ UNCHANGED <<stock, rejects, reject_items>>

RECURSIVE QuantityOn(_, _)
QuantityOn(items, p) ==
    IF items = << >> THEN 0
    ELSE (IF Head(items).product = p THEN Head(items).quantity ELSE 0)
           + QuantityOn(Tail(items), p)

\* C11: creating a stock-in with items, and adding an item to a stock-in,
\* succeeds and increases each named product's stock by exactly the quantity
\* of the items persisted, whatever the status of the stock-in.
C11_StockInAddsQuantity ==
    [][ /\ ( req[1].op = "CreateStockIn" /\ req'[1].op = "idle" )
             => /\ resp'[1].code = "ok"
                /\ stock_ins'[resp'[1].hdr].status = req[1].status
                /\ \A p \in Products :
                      stock'[p] = stock[p] + QuantityOn(req[1].items, p)
        /\ ( req[1].op = "AddStockInItem" /\ req'[1].op = "idle" )
             => /\ resp'[1].code = "ok"
                /\ \A p \in Products :
                      stock'[p] = stock[p] +
                          (IF p = req[1].product THEN req[1].quantity ELSE 0) ]_vars

\* C11 witness: a stock-in created as completed and one created as cancelled
\* hold items, and an item was added to a stock-in that is not a draft
C11_Witness ==
    /\ resp[1].op = "AddStockInItem" /\ resp[1].code = "ok"
    /\ stock_ins[resp[1].hdr].status # "draft"
    /\ \E i, j \in DOMAIN stock_in_items :
          /\ stock_ins[stock_in_items[i].parent].status = "completed"
          /\ stock_ins[stock_in_items[j].parent].status = "cancelled"

\* C12: creating a sale with items persists the items, decreases each named
\* product's stock by the quantity sold, and stores as the sale's total the
\* sum of the item subtotals.
C12_SaleCreateAppliesItems ==
    [][ ( req[1].op = "CreateSale" /\ req'[1].op = "idle" )
          => /\ resp'[1].code = "ok"
             /\ Cardinality(LiveItems(sale_items', resp'[1].hdr)) = Len(req[1].items)
             /\ \A p \in Products :
                   stock'[p] = stock[p] - QuantityOn(req[1].items, p)
             /\ sales'[resp'[1].hdr].total = CalculateTotals(req[1].items) ]_vars

\* C13: an update of a stock-in item applies to the stock of the product the
\* item names only the difference between the new quantity and the quantity
\* stored before, never the whole new quantity; no other stock changes, and a
\* step that changes no item changes no stock.
C13_UpdateAppliesDifference ==
    [][ Len(stock_in_items') = Len(stock_in_items) =>
          LET changed == {i \in DOMAIN stock_in_items :
                             stock_in_items'[i] # stock_in_items[i]}
          IN  /\ changed = {} => stock' = stock
              /\ \A i \in changed :
                    stock' = [stock EXCEPT ![stock_in_items'[i].product] =
                                @ + stock_in_items'[i].quantity
                                  - stock_in_items[i].quantity] ]_vars

\* C13 witness: an update went through and a product holds less than before
\* the first request, which only an update to a smaller quantity brings about
C13_Witness ==
    /\ resp[1].op = "UpdateStockInItem" /\ resp[1].code = "ok"
    /\ \E p \in Products : stock[p] < InitStock

C15_FailedCreateChangesNothing ==
    [][ ( /\ req[1].op \in {"CreateStockIn", "CreateReject", "CreateSale"}
          /\ req'[1].op = "idle"
          /\ resp'[1].code # "ok" )
        => UNCHANGED <<stock, stock_ins, stock_in_items, rejects, reject_items,
                       sales, sale_items, suppliers, customers>> ]_vars

\* C15 witness: a create with a supplier went through, and a later create
\* failed
C15_Witness ==
    /\ resp[1].code = "ServerError"
    /\ resp[1].op \in {"CreateStockIn", "CreateReject", "CreateSale"}
    /\ suppliers["s1"].total_purchases > 0

\* C16: completed and cancelled are terminal: once a stock-in, a sale or a
\* reject is completed or cancelled, no step changes its status.
C16_TerminalStatusStays ==
    [][ /\ \A h \in DOMAIN stock_ins :
              stock_ins[h].status \in {"completed", "cancelled"}
                => stock_ins'[h].status = stock_ins[h].status
        /\ \A h \in DOMAIN sales :
              sales[h].status \in {"completed", "cancelled"}
                => sales'[h].status = sales[h].status
        /\ \A h \in DOMAIN rejects :
              rejects[h].status \in {"completed", "cancelled"}
                => rejects'[h].status = rejects[h].status ]_vars

\* C17: the items of a transaction in a terminal state are locked: no step
\* adds an item to a completed or cancelled stock-in or reject, changes or
\* soft-deletes one of its items, or changes its total.
C17_TerminalItemsLocked ==
    [][ /\ \A h \in DOMAIN stock_ins :
              stock_ins[h].status \in {"completed", "cancelled"}
                => /\ stock_ins'[h].total = stock_ins[h].total
                   /\ \A i \in DOMAIN stock_in_items' :
                         stock_in_items'[i].parent = h
                           => /\ i \in DOMAIN stock_in_items
                              /\ stock_in_items'[i] = stock_in_items[i]
        /\ \A h \in DOMAIN rejects :
              ( /\ rejects[h].status \in {"completed", "cancelled"}
                /\ rejects'[h].status = rejects[h].status )
                => /\ rejects'[h].total = rejects[h].total
                   /\ \A i \in DOMAIN reject_items' :
                         reject_items'[i].parent = h
                           => /\ i \in DOMAIN reject_items
                              /\ reject_items'[i] = reject_items[i] ]_vars

\* C18: a request to delete a completed reject is answered with the locked
\* error and changes neither the reject, nor its items, nor any stock; and no
\* step soft-deletes a reject that is completed.
C18_CompletedRejectNotDeleted ==
    [][ \A id \in DOMAIN rejects :
          ( Visible(rejects, id) /\ rejects[id].status = "completed" )
            => /\ ~rejects'[id].deleted
               /\ H_DeleteReject(1, id)
                    => /\ resp'[1] = [op |-> "DeleteReject", code |-> "Locked",
                                      hdr |-> id, item |-> 0]
                       /\ req'[1].op = "idle"
                       /\ UNCHANGED <<rejects, reject_items, stock>> ]_vars

\* C18 witness: the delete of a completed reject that has a live item was
\* answered with the locked error, and the reject and the item are still there
C18_Witness ==
    /\ resp[1].op = "DeleteReject" /\ resp[1].code = "Locked"
    /\ req[1].op = "idle"
    /\ Visible(rejects, resp[1].hdr)
    /\ rejects[resp[1].hdr].status = "completed"
    /\ \E i \in DOMAIN reject_items :
          reject_items[i].parent = resp[1].hdr /\ ~reject_items[i].deleted

\* C19: an UpdateSale request that moves a sale to completed hands the
\* repository a sale with paid = total and balance = 0, the repository stores
\* it so, and no step stores a sale as newly completed in any other way.
C19_CompletionSettles ==
    [][ /\ ( /\ req[1].op = "idle" /\ req'[1].op = "UpdateSale"
             /\ req'[1].status = "completed"
             /\ sales[req'[1].hdr].status # "completed" )
            => /\ req'[1].quantity = req'[1].total
               /\ req'[1].subtotal = 0
        /\ ( /\ req[1].op = "UpdateSale" /\ req[1].status = "completed"
             /\ sales[req[1].hdr].status # "completed" )
            => sales'[req[1].hdr].status = "completed"
        /\ \A id \in DOMAIN sales :
              ( sales[id].status # "completed"
                /\ sales'[id].status = "completed" )
                => /\ sales'[id].paid = sales'[id].total
                   /\ sales'[id].balance = 0 ]_vars

C21_SubtotalIsQuantityTimesValue ==
    /\ \A i \in DOMAIN stock_in_items :
          stock_in_items[i].subtotal =
              stock_in_items[i].quantity * stock_in_items[i].unit_cost
    /\ \A i \in DOMAIN reject_items :
          reject_items[i].subtotal =
              reject_items[i].quantity * reject_items[i].unit_cost

\* C22: the step that stores a new stock-in (sale) with a supplier (customer)
\* adds 1 to that party's count and the stored total of the new transaction to
\* its total_spent and touches no other counter; every other step leaves all
\* the counters of all suppliers and customers as they are.
C22_RollupOnCreateOnly ==
    [][ IF Len(stock_ins') > Len(stock_ins)
        THEN /\ customers' = customers
             /\ suppliers' =
                  IF req[1].party \in Suppliers
                  THEN [suppliers EXCEPT
                          ![req[1].party].total_purchases = @ + 1,
                          ![req[1].party].total_spent =
                              @ + stock_ins'[Len(stock_ins')].total]
                  ELSE suppliers
        ELSE IF Len(sales') > Len(sales)
        THEN /\ suppliers' = suppliers
             /\ customers' =
                  IF req[1].party \in Customers
                  THEN [customers EXCEPT
                          ![req[1].party].total_orders = @ + 1,
                          ![req[1].party].total_spent =
                              @ + sales'[Len(sales')].total]
                  ELSE customers
        ELSE UNCHANGED <<suppliers, customers>> ]_vars

\* C22 witness: a supplier with one purchase of total 3 whose stock-in has
\* since lost its item and been deleted
C22_Witness ==
    /\ suppliers["s1"].total_purchases = 1 /\ suppliers["s1"].total_spent = 3
    /\ \E h \in DOMAIN stock_ins : stock_ins[h].deleted
    /\ \E i \in DOMAIN stock_in_items : stock_in_items[i].deleted

\* the request is answered with the product-not-found error and nothing is
\* written
ProductNotFoundNoWrite ==
    /\ resp'[1].code = "ProductNotFound"
    /\ req'[1].op = "idle"
    /\ UNCHANGED <<stock, stock_ins, stock_in_items>>

\* C23: a create, an add-item or an update-item request with an item whose
\* product is soft-deleted or does not exist is answered with the
\* product-not-found error and writes nothing.
C23_UnknownProductRefused ==
    [][ /\ \A items \in [1..1 -> AnyProductItems] :
              ( items[1].product \notin Products
                /\ H_CreateStockIn(1, "draft", 0, items) )
                => ProductNotFoundNoWrite
        /\ \A id \in DOMAIN stock_ins, it \in AnyProductItems :
              ( it.product \notin Products /\ H_AddStockInItem(1, id, it) )
                => ProductNotFoundNoWrite
        /\ \A item \in DOMAIN stock_in_items, it \in AnyProductItems :
              ( it.product \notin Products /\ UpdateOwnStockInItem(1, item, it) )
                => ProductNotFoundNoWrite ]_vars

\* the summed quantity of the live items of header h that name product p
LiveQuantityOn(items, h, p) ==
    SumField(items, {i \in LiveItems(items, h) : items[i].product = p}, "quantity")

\* C24: the update that moves a reject from another status to completed takes
\* from each product the summed quantity of the reject's live items that name
\* it, and an update of a reject that does not enter completed changes no stock.
C24_CompletionTakesPerProductQuantity ==
    [][ req[1].op = "UpdateReject" =>
          \A id \in DOMAIN rejects :
             IF rejects[id].status # "completed" /\ rejects'[id].status = "completed"
             THEN \A p \in Products :
                     stock'[p] = stock[p] - LiveQuantityOn(reject_items, id, p)
             ELSE id = req[1].hdr => stock' = stock ]_vars

\* C25: at every point of any sequence of stock-in item adds, updates and
\* deletes, the stock of every product is its initial stock plus the summed
\* quantity of the stock-in items that are not soft-deleted and name it.
C25_StockIsInitialPlusLiveItems ==
    \A p \in Products :
        stock[p] = InitStock
                   + SumField(stock_in_items,
                        {i \in DOMAIN stock_in_items :
                            /\ ~stock_in_items[i].deleted
                            /\ stock_in_items[i].product = p},
                        "quantity")

\* C26: the update that moves a stock-in with persisted items to completed
\* goes through and leaves every stock as it was: the quantities its items
\* added when they were persisted are not added a second time.
C26_CompletionAddsNothing ==
    [][ ( /\ req[1].op = "UpdateStockIn" /\ req[1].status = "completed"
          /\ stock_ins[req[1].hdr].status # "completed" )
        => /\ stock_ins'[req[1].hdr].status = "completed"
           /\ stock' = stock ]_vars

\* C27: under every interleaving of a client that completes or cancels rejects
\* with a client that adds, updates and deletes their items, once the terminal
\* status of a reject is committed no step inserts an item of that reject,
\* changes one or soft-deletes one.
C27_NoItemWriteAfterTerminalCommit ==
    [][ \A h \in DOMAIN rejects :
          rejects[h].status \in {"completed", "cancelled"}
            => \A i \in DOMAIN reject_items' :
                  reject_items'[i].parent = h
                    => /\ i \in DOMAIN reject_items
                       /\ reject_items'[i] = reject_items[i] ]_vars

\* C28: under every interleaving of a client that adds stock-in items with a
\* client that deletes stock-ins, no soft-deleted stock-in owns an item that
\* is not soft-deleted.
C28_DeletedStockInOwnsNoLiveItem ==
    \A i \in DOMAIN stock_in_items :
        ~stock_in_items[i].deleted
          => ~stock_ins[stock_in_items[i].parent].deleted

C30_UpdateRecomputesOwnerTotal ==
    [][ /\ \A hdr \in 1..MaxStockIns, item \in DOMAIN stock_in_items,
              it \in PlainItems :
              ( UpdateStockInItem(1, hdr, item, it) /\ resp'[1].code = "ok" )
                => LET owner == stock_in_items[item].parent
                   IN  /\ stock_ins'[owner].total =
                              SumSubtotal(stock_in_items', owner)
                       /\ \A g \in DOMAIN stock_ins \ {owner} :
                              stock_ins'[g].total = stock_ins[g].total
        /\ ( /\ req[1].op = "UpdateRejectItem" /\ req'[1].op = "idle"
             /\ resp'[1].code = "ok"
             /\ req[1].item \in DOMAIN reject_items )
            => LET owner == reject_items[req[1].item].parent
               IN  /\ rejects'[owner].total = SumSubtotal(reject_items', owner)
                   /\ \A g \in DOMAIN rejects \ {owner} :
                          rejects'[g].total = rejects[g].total ]_vars
====
